---------------------------- MODULE Spec2Model ----------------------------
(***************************************************************************)
(* A model of elephant's spike train processing (complexity intervals and  *)
(* synchrofact detection, elephant/spike_train_processing.py) and of the   *)
(* online accumulators (elephant/online.py).                               *)
(*                                                                         *)
(* Times are integers counted in ticks; one bin is BinW = 2 * HalfBin      *)
(* ticks wide, so that the half-bin shift of the interval edges is exact.  *)
(* Indices are 0-based as in the code; a sequence s holds the code's s[k]  *)
(* at s[k + 1].  A value that may be None is None or Some(v).              *)
(***************************************************************************)
EXTENDS Integers, Sequences, FiniteSets, TLC

VARIABLES
    pc,                   \* position of the call being executed
    \* ---- detect_synchrofacts / precise_complexity_intervals
    spiketrains,          \* the caller's list: object ids
    objs,                 \* heap of SpikeTrain objects: id -> record
    unit_spiketrains,     \* unit.spiketrains of the owning unit
    segment_spiketrains,  \* segment.spiketrains of the owning segment
    t_start,              \* common t_start of the spike trains
    spread,
    deletion_threshold,
    invert_delete,
    bincount,
    i,
    complexities,
    left_edges,
    right_edges,
    last_window_sum,
    last_nonzero_index,
    current_window,
    window_sum,
    idx,
    \* ---- online accumulators
    kind,                 \* which class the object is an instance of
    batch_mode,
    mean,
    count,
    units,
    variance_sum,
    last_spike_time,
    current_isi_histogram,
    max_isi_value,
    num_bins,
    result,               \* outcome of the last call on the accumulator
    fed,                  \* values of the updates that returned normally
    clean                 \* no update raised since creation / last reset

procVars == <<spiketrains, objs, unit_spiketrains, segment_spiketrains,
              t_start, spread, deletion_threshold, invert_delete, idx>>
scanVars == <<bincount, i, complexities, left_edges, right_edges,
              last_window_sum, last_nonzero_index, current_window,
              window_sum>>
onlineVars == <<kind, batch_mode, mean, count, units, variance_sum,
                last_spike_time, current_isi_histogram, max_isi_value,
                num_bins, result, fed, clean>>
vars == <<pc, procVars, scanVars, onlineVars>>

-----------------------------------------------------------------------------
(* Bounds of the model *)

MaxBins == 5        \* longest bincount vector drawn
MaxSpread == 2      \* largest spread drawn
HalfBin == 2        \* ticks in half a bin
MaxEvents == 2      \* most events in the first spike train

BinW == 2 * HalfBin
Counts == {0, 1, 2}
\* Python's None, and a value that may be None: None or Some(v)
None == <<>>
Some(v) == <<v>>
\* no units: the value is not a Quantity
NoUnits == "none"

-----------------------------------------------------------------------------
(* Generic helpers *)

Min(a, b) == IF a <= b THEN a ELSE b

SetMax(S) == CHOOSE x \in S : \A y \in S : y <= x

RECURSIVE Sum(_)
Sum(s) == IF s = <<>> THEN 0 ELSE Head(s) + Sum(Tail(s))

\* Python's s[lo:hi] for 0 <= lo, 0 <= hi (the slice is cut at the end of s)
Slice(s, lo, hi) == SubSeq(s, lo + 1, Min(hi, Len(s)))

\* np.nonzero(w)[0]: the 0-based indices of the nonzero entries, ascending
RECURSIVE Nonzero(_)
Nonzero(w) ==
    IF w = <<>> THEN <<>>
    ELSE LET front == Nonzero(SubSeq(w, 1, Len(w) - 1))
         IN  IF w[Len(w)] # 0 THEN Append(front, Len(w) - 1) ELSE front

\* bst.bin_edges[k]
bin_edges(k) == t_start + k * BinW

-----------------------------------------------------------------------------
(* precise_complexity_intervals: the interval scan *)

\* spread == 0: every nonzero bin is an interval of its own
Spread0 ==
    /\ pc = "branch"
    /\ spread = 0
    /\ LET bin_indices == Nonzero(bincount)
       IN  /\ complexities' = [k \in 1..Len(bin_indices) |->
                                   bincount[bin_indices[k] + 1]]
           /\ left_edges' = [k \in 1..Len(bin_indices) |->
                                 bin_edges(bin_indices[k])]
           /\ right_edges' = [k \in 1..Len(bin_indices) |->
                                  bin_edges(bin_indices[k] + 1)]
    /\ pc' = "shift"
    /\ UNCHANGED <<bincount, i, last_window_sum, last_nonzero_index,
                   current_window, window_sum, procVars, onlineVars>>

\* spread != 0: the scan starts at the first bin with empty result lists
ScanInit ==
    /\ pc = "branch"
    /\ spread # 0
    /\ i' = 0
    /\ complexities' = <<>>
    /\ left_edges' = <<>>
    /\ right_edges' = <<>>
    /\ pc' = "outer"
    /\ UNCHANGED <<bincount, last_window_sum, last_nonzero_index,
                   current_window, window_sum, procVars, onlineVars>>

\* an empty bin is skipped
OuterZero ==
    /\ pc = "outer"
    /\ i < Len(bincount)
    /\ bincount[i + 1] = 0
    /\ i' = i + 1
    /\ UNCHANGED <<pc, bincount, complexities, left_edges, right_edges,
                   last_window_sum, last_nonzero_index, current_window,
                   window_sum, procVars, onlineVars>>

WindowOf_short(lni) == Slice(bincount, i, i + lni + spread)

\* bincount[i: i + last_nonzero_index + spread + 1]
WindowOf(lni) == Slice(bincount, i, i + lni + spread + 1)

\* a nonzero bin opens a window of spread + 1 bins
WindowOpen ==
    /\ pc = "outer"
    /\ i < Len(bincount)
    /\ bincount[i + 1] # 0
    /\ last_window_sum' = bincount[i + 1]
    /\ last_nonzero_index' = 0
    /\ current_window' = WindowOf(0)
    /\ window_sum' = Sum(WindowOf(0))
    /\ pc' = "inner"
    /\ UNCHANGED <<bincount, i, complexities, left_edges, right_edges,
                   procVars, onlineVars>>

GrowCond_ge == window_sum >= last_window_sum

\* while window_sum > last_window_sum
GrowCond == window_sum > last_window_sum

\* the window is extended to spread bins past its last nonzero bin
WindowGrow ==
    /\ pc = "inner"
    /\ GrowCond
    /\ LET lni == Nonzero(current_window)[Len(Nonzero(current_window))]
       IN  /\ last_nonzero_index' = lni
           /\ current_window' = WindowOf(lni)
           /\ last_window_sum' = window_sum
           /\ window_sum' = Sum(WindowOf(lni))
    /\ UNCHANGED <<pc, bincount, i, complexities, left_edges, right_edges,
                   procVars, onlineVars>>

NextScanIndex_one == i + 1

\* i += last_nonzero_index + 1
NextScanIndex == i + last_nonzero_index + 1

\* the window is closed: one interval is appended and the scan moves on;
\* bst.bin_edges has Len(bincount) + 1 entries, an index past them raises
WindowClose ==
    /\ pc = "inner"
    /\ ~GrowCond
    /\ IF i + last_nonzero_index + 1 > Len(bincount)
       THEN /\ pc' = "error"
            /\ complexities' = Append(complexities, window_sum)
            /\ left_edges' = Append(left_edges, bin_edges(i))
            /\ UNCHANGED <<right_edges, i>>
       ELSE /\ pc' = "outer"
            /\ complexities' = Append(complexities, window_sum)
            /\ left_edges' = Append(left_edges, bin_edges(i))
            /\ right_edges' = Append(right_edges,
                                     bin_edges(i + last_nonzero_index + 1))
            /\ i' = NextScanIndex
    /\ UNCHANGED <<bincount, last_window_sum, last_nonzero_index,
                   current_window, window_sum, procVars, onlineVars>>

\* while i < len(bincount) ends
ScanExit ==
    /\ pc = "outer"
    /\ ~(i < Len(bincount))
    /\ pc' = "shift"
    /\ UNCHANGED <<scanVars, procVars, onlineVars>>

\* bin_shift = .5 / sampling_rate
bin_shift == HalfBin

\* ensure that spikes are not on the bin edges
Shift ==
    /\ pc = "shift"
    /\ left_edges' = [k \in 1..Len(left_edges) |-> left_edges[k] - bin_shift]
    /\ right_edges' = [k \in 1..Len(right_edges) |-> right_edges[k] - bin_shift]
    /\ pc' = "clamp"
    /\ UNCHANGED <<bincount, i, complexities, last_window_sum,
                   last_nonzero_index, current_window, window_sum,
                   procVars, onlineVars>>

\* min_t_start = min([st.t_start for st in spiketrains]); the spike trains
\* passed the consistency check, so they share one t_start
min_t_start == t_start

\* left_edges[0] = min(min_t_start, left_edges[0]); the epoch is built
\* from the edges.  Without any interval left_edges[0] raises.
Clamp ==
    /\ pc = "clamp"
    /\ IF left_edges = <<>>
       THEN /\ pc' = "error"
            /\ UNCHANGED left_edges
       ELSE /\ pc' = "epoch"
            /\ left_edges' = [left_edges EXCEPT
                                  ![1] = Min(min_t_start, left_edges[1])]
    /\ UNCHANGED <<bincount, i, complexities, right_edges, last_window_sum,
                   last_nonzero_index, current_window, window_sum,
                   procVars, onlineVars>>

\* the returned neo.Epoch: times, durations and the complexity annotation
epoch_times == left_edges
epoch_durations == [k \in 1..Len(left_edges) |-> right_edges[k] - left_edges[k]]
epoch_complexity == complexities

NextCI ==
    \/ Spread0
    \/ ScanInit
    \/ OuterZero
    \/ WindowOpen
    \/ WindowGrow
    \/ WindowClose
    \/ ScanExit
    \/ Shift
    \/ Clamp

-----------------------------------------------------------------------------
(* Specification of precise_complexity_intervals over bincount vectors *)

RECURSIVE SeqsUpTo(_, _)
SeqsUpTo(S, n) ==
    IF n = 0 THEN {<<>>}
    ELSE LET shorter == SeqsUpTo(S, n - 1)
         IN  shorter \cup {Append(s, x) : s \in shorter, x \in S}

\* the bincount of the documented example: spikes [1, 4, 6] and [1, 5, 8]
\* ms, t_stop = 10 ms, 1 ms bins
DocBincount == <<0, 2, 0, 0, 1, 1, 1, 0, 1, 0>>

Bincounts == {b \in SeqsUpTo(Counts, MaxBins) : Len(b) >= 2} \cup {DocBincount}

TStarts == {0, BinW}

OnlineIdle ==
    /\ kind = "none"
    /\ batch_mode = FALSE
    /\ mean = None
    /\ count = 0
    /\ units = NoUnits
    /\ variance_sum = <<0, 1>>
    /\ last_spike_time = None
    /\ current_isi_histogram = <<>>
    /\ max_isi_value = 0
    /\ num_bins = 0
    /\ result = "none"
    /\ fed = <<>>
    /\ clean = TRUE

ScanIdle ==
    /\ i = 0
    /\ complexities = <<>>
    /\ left_edges = <<>>
    /\ right_edges = <<>>
    /\ last_window_sum = 0
    /\ last_nonzero_index = 0
    /\ current_window = <<>>
    /\ window_sum = 0

InitCI ==
    /\ pc = "branch"
    /\ bincount \in Bincounts
    /\ spread \in 0..MaxSpread
    /\ t_start \in TStarts
    /\ ScanIdle
    /\ spiketrains = <<>>
    /\ objs = <<>>
    /\ unit_spiketrains = <<>>
    /\ segment_spiketrains = <<>>
    /\ deletion_threshold = None
    /\ invert_delete = FALSE
    /\ idx = 0
    /\ OnlineIdle

SpecCI == InitCI /\ [][NextCI]_vars

SpecCIFair == SpecCI /\ WF_vars(NextCI)

-----------------------------------------------------------------------------
(* The spread rule, stated on the bincount alone *)

NonzeroBins == {k \in 0..(Len(bincount) - 1) : bincount[k + 1] # 0}

\* p < q are consecutive nonzero bins
Consecutive(p, q) ==
    /\ p \in NonzeroBins
    /\ q \in NonzeroBins
    /\ p < q
    /\ \A r \in NonzeroBins : ~(p < r /\ r < q)

\* the nonzero bins a <= b belong together: every pair of consecutive nonzero
\* bins from a to b is separated by at most spread - 1 empty bins
Linked(a, b) ==
    \A p \in a..b, q \in a..b :
        Consecutive(p, q) => (q - p - 1 <= spread - 1)

GroupFirsts == {a \in NonzeroBins :
                   \A p \in NonzeroBins : p < a => ~Linked(p, a)}

GroupLast(a) == SetMax({b \in NonzeroBins : a <= b /\ Linked(a, b)})

RECURSIVE SortedSeq(_)
SortedSeq(S) ==
    IF S = {} THEN <<>>
    ELSE LET m == SetMax(S) IN Append(SortedSeq(S \ {m}), m)

ExpectedFirsts == SortedSeq(GroupFirsts)

ExpectedComplexities ==
    [k \in 1..Len(ExpectedFirsts) |->
        Sum(SubSeq(bincount, ExpectedFirsts[k] + 1,
                   GroupLast(ExpectedFirsts[k]) + 1))]

ExpectedLeft ==
    [k \in 1..Len(ExpectedFirsts) |-> bin_edges(ExpectedFirsts[k])]

ExpectedRight ==
    [k \in 1..Len(ExpectedFirsts) |->
        bin_edges(GroupLast(ExpectedFirsts[k]) + 1)]

\* bin a lies within interval k of the scan's (unshifted) result
BinInInterval(a, k) ==
    /\ left_edges[k] <= bin_edges(a)
    /\ bin_edges(a + 1) <= right_edges[k]

DocComplexities ==
    [s \in 0..2 |-> CASE s = 0 -> <<2, 1, 1, 1, 1>>
                      [] s = 1 -> <<2, 3, 1>>
                      [] s = 2 -> <<2, 4>>]

C3_NoStartBeforeTStart ==
    pc = "epoch" => \A k \in 1..Len(epoch_times) : epoch_times[k] >= min_t_start

\* C10: the scan terminates.  The inner loop runs only while the window sum
\* strictly exceeds the previous one, every extension moves the last nonzero
\* index on, every outer step advances i by at least one bin and never past
\* the last bin, the right edge index stays within bin_edges, and the scan
\* is eventually left.
C10_ScanTerminates ==
    /\ [][(pc = "inner" /\ pc' = "inner") =>
              /\ window_sum > last_window_sum
              /\ last_window_sum' > last_window_sum
              /\ last_nonzero_index' > last_nonzero_index]_vars
    /\ [][(pc \in {"outer", "inner"} /\ i' # i) =>
              (i' >= i + 1 /\ i' <= Len(bincount))]_vars
    /\ [](pc = "inner" => i + last_nonzero_index + 1 <= Len(bincount))
    /\ <>(pc = "shift")

\* a window that was extended twice has been closed at the end of the bins
C10_Witness ==
    /\ pc = "shift"
    /\ spread = 1
    /\ bincount = <<0, 1, 1, 1>>
    /\ complexities = <<3>>
    /\ i = Len(bincount)

-----------------------------------------------------------------------------
(* detect_synchrofacts *)

ThresholdInvalid_lt ==
    deletion_threshold # None /\ deletion_threshold[1] < 1

\* deletion_threshold is not None and deletion_threshold <= 1
ThresholdInvalid ==
    deletion_threshold # None /\ deletion_threshold[1] <= 1

\* the threshold is validated before anything else
Validate ==
    /\ pc = "call"
    /\ pc' = IF ThresholdInvalid THEN "raised" ELSE "bin"
    /\ UNCHANGED <<procVars, scanVars, onlineVars>>

\* number of bins between t_start and t_stop
NBinsSync == MaxBins - 2

\* conv.BinnedSpikeTrain(...).to_sparse_array().sum(axis=0): per bin, the
\* number of events of all spike trains that fall into the bin
RECURSIVE BinCountOf(_, _)
BinCountOf(sts, k) ==
    IF sts = <<>> THEN 0
    ELSE Cardinality({j \in DOMAIN objs[Head(sts)].times :
                         (objs[Head(sts)].times[j] - t_start) \div BinW = k})
         + BinCountOf(Tail(sts), k)

\* the spike trains are binned jointly
Bin ==
    /\ pc = "bin"
    /\ bincount' = [k \in 1..NBinsSync |-> BinCountOf(spiketrains, k - 1)]
    /\ pc' = "branch"
    /\ UNCHANGED <<i, complexities, left_edges, right_edges, last_window_sum,
                   last_nonzero_index, current_window, window_sum,
                   procVars, onlineVars>>

\* right_edges = complexity_epoch.times + complexity_epoch.durations
detect_right_edges ==
    [k \in 1..Len(epoch_times) |-> epoch_times[k] + epoch_durations[k]]

\* the epoch is returned to detect_synchrofacts, which starts its loop
Resume ==
    /\ pc = "epoch"
    /\ idx' = 0
    /\ pc' = "loop"
    /\ UNCHANGED <<spiketrains, objs, unit_spiketrains, segment_spiketrains,
                   t_start, spread, deletion_threshold, invert_delete,
                   scanVars, onlineVars>>

\* np.searchsorted(a, v) (side='left') on an ascending a: the 0-based index
\* of the first entry >= v, len(a) when there is none
SearchSorted(a, v) == Cardinality({k \in DOMAIN a : a[k] < v})

\* every spike of the spike train gets the complexity of the epoch the
\* search gives; complexity[len(complexity)] raises an IndexError
Annotate ==
    /\ pc = "loop"
    /\ idx < Len(spiketrains)
    /\ LET st == spiketrains[idx + 1]
           spike_to_epoch_idx ==
               [j \in DOMAIN objs[st].times |->
                   SearchSorted(detect_right_edges, objs[st].times[j])]
       IN  IF \E j \in DOMAIN spike_to_epoch_idx :
                  spike_to_epoch_idx[j] >= Len(epoch_complexity)
           THEN /\ pc' = "error"
                /\ UNCHANGED <<objs, idx>>
           ELSE /\ objs' = [objs EXCEPT ![st].complexity =
                                Some([j \in DOMAIN spike_to_epoch_idx |->
                                    epoch_complexity[spike_to_epoch_idx[j] + 1]])]
                /\ IF deletion_threshold # None
                   THEN pc' = "delete" /\ UNCHANGED idx
                   ELSE pc' = "loop" /\ idx' = idx + 1
    /\ UNCHANGED <<spiketrains, unit_spiketrains, segment_spiketrains,
                   t_start, spread, deletion_threshold, invert_delete,
                   scanVars, onlineVars>>

\* mask = complexity_per_spike < deletion_threshold, inverted on request
Keep(c) ==
    IF invert_delete THEN ~(c < deletion_threshold[1])
    ELSE c < deletion_threshold[1]

\* s[mask]: the entries of s at the positions where the mask holds
RECURSIVE Masked(_, _)
Masked(s, m) ==
    IF s = <<>> THEN <<>>
    ELSE IF Head(m) THEN <<Head(s)>> \o Masked(Tail(s), Tail(m))
         ELSE Masked(Tail(s), Tail(m))

\* _get_index(lst, obj): the first 0-based index holding obj, None otherwise
_get_index(lst, obj) ==
    IF \E k \in DOMAIN lst : lst[k] = obj
    THEN Some((CHOOSE k \in DOMAIN lst :
                  lst[k] = obj /\ \A h \in DOMAIN lst : lst[h] = obj => k <= h)
              - 1)
    ELSE None

\* the spike train is replaced by its masked copy in the caller's list and
\* in the lists of its unit and segment; lst[None] = ... raises a TypeError
Delete ==
    /\ pc = "delete"
    /\ LET old_st == spiketrains[idx + 1]
           complexity_per_spike == objs[old_st].complexity[1]
           mask == [j \in DOMAIN complexity_per_spike |->
                        Keep(complexity_per_spike[j])]
           new_st == Len(objs) + 1
           uidx == _get_index(unit_spiketrains, old_st)
           sidx == _get_index(segment_spiketrains, old_st)
       IN  /\ objs' = Append(objs,
                  [times |-> Masked(objs[old_st].times, mask),
                   complexity |-> Some(Masked(complexity_per_spike, mask)),
                   unit |-> objs[old_st].unit,
                   segment |-> objs[old_st].segment])
           /\ spiketrains' = [spiketrains EXCEPT ![idx + 1] = new_st]
           /\ IF objs[old_st].unit /\ uidx = None
              THEN /\ pc' = "error"
                   /\ UNCHANGED <<unit_spiketrains, segment_spiketrains, idx>>
              ELSE /\ unit_spiketrains' =
                        IF objs[old_st].unit
                        THEN [unit_spiketrains EXCEPT ![uidx[1] + 1] = new_st]
                        ELSE unit_spiketrains
                   /\ IF objs[old_st].segment /\ sidx = None
                      THEN /\ pc' = "error"
                           /\ UNCHANGED <<segment_spiketrains, idx>>
                      ELSE /\ segment_spiketrains' =
                                IF objs[old_st].segment
                                THEN [segment_spiketrains EXCEPT
                                          ![sidx[1] + 1] = new_st]
                                ELSE segment_spiketrains
                           /\ idx' = idx + 1
                           /\ pc' = "loop"
    /\ UNCHANGED <<t_start, spread, deletion_threshold, invert_delete,
                   scanVars, onlineVars>>

\* the loop over the spike trains is over: the epoch is returned
Return ==
    /\ pc = "loop"
    /\ ~(idx < Len(spiketrains))
    /\ pc' = "done"
    /\ UNCHANGED <<procVars, scanVars, onlineVars>>

NextSync ==
    \/ Validate
    \/ Bin
    \/ NextCI
    \/ Resume
    \/ Annotate
    \/ Delete
    \/ Return

-----------------------------------------------------------------------------
(* Specification of detect_synchrofacts over two spike trains *)

\* an event on the sampling grid, or past the middle of its bin
Offsets == {0, HalfBin + 1}

EventTimes == {b * BinW + o : b \in 0..(NBinsSync - 1), o \in Offsets}

Trains(n) == {s \in SeqsUpTo(EventTimes, n) :
                 \A j \in 1..Len(s), k \in 1..Len(s) : j < k => s[j] <= s[k]}

\* (deletion_threshold, invert_delete) of the call
Options == {<<None, FALSE>>, <<Some(0), TRUE>>, <<Some(1), FALSE>>,
            <<Some(2), FALSE>>, <<Some(2), TRUE>>, <<Some(3), FALSE>>}

\* the spike trains 1 and 2 of the call belong to a unit and a segment (or to
\* neither); object 3 is another spike train of the same unit and segment
UnitListOf(owned) == IF owned THEN <<2, 3, 1>> ELSE <<3>>
SegmentListOf(owned) == IF owned THEN <<1, 2, 3>> ELSE <<3>>

InitSync ==
    /\ pc = "call"
    /\ \E owned \in BOOLEAN, s1 \in Trains(MaxEvents), s2 \in Trains(1) :
          /\ objs = <<[times |-> s1, complexity |-> None,
                       unit |-> owned, segment |-> owned],
                      [times |-> s2, complexity |-> None,
                       unit |-> owned, segment |-> owned],
                      [times |-> <<>>, complexity |-> None,
                       unit |-> TRUE, segment |-> TRUE]>>
          /\ unit_spiketrains = UnitListOf(owned)
          /\ segment_spiketrains = SegmentListOf(owned)
    /\ spiketrains = <<1, 2>>
    /\ t_start = 0
    /\ spread \in 0..MaxSpread
    /\ \E o \in Options : deletion_threshold = o[1] /\ invert_delete = o[2]
    /\ idx = 0
    /\ bincount = <<>>
    /\ ScanIdle
    /\ OnlineIdle

SpecSync == InitSync /\ [][NextSync]_vars

-----------------------------------------------------------------------------
(* Properties of detect_synchrofacts *)

\* the events of the two spike trains passed to the call
InputEvents == Len(objs[1].times) + Len(objs[2].times)

\* the interval k of the returned epoch contains the time t
EpochContains(k, t) ==
    /\ epoch_times[k] <= t
    /\ t < epoch_times[k] + epoch_durations[k]

\* every spike of spike train id is annotated with the synchrony count of
\* the interval that contains it
AnnotatedByContainingInterval(id) ==
    \A j \in DOMAIN objs[id].times :
        \E k \in 1..Len(epoch_times) :
            /\ EpochContains(k, objs[id].times[j])
            /\ objs[id].complexity[1][j] = epoch_complexity[k]

\* C2: once the intervals are built, the right-edge search never leaves the
\* interval sequence (no IndexError), and every annotated event carries the
\* synchrony count of the interval that contains it
C2_AnnotationOfContainingInterval ==
    (pc \in {"loop", "delete", "done", "error"} /\ epoch_complexity # <<>>) =>
        /\ pc # "error"
        /\ \A id \in {1, 2} :
              objs[id].complexity # None => AnnotatedByContainingInterval(id)

\* the claimed mask: annotation < T, or annotation >= T when inverted
KeepClaimed(c) ==
    IF invert_delete THEN c >= deletion_threshold[1]
    ELSE c < deletion_threshold[1]

KeptTimes(id) ==
    Masked(objs[id].times,
           [j \in DOMAIN objs[id].times |->
               KeepClaimed(objs[id].complexity[1][j])])

Removed(id) == Len(objs[id].times) - Len(KeptTimes(id))

\* the list lst with the object old replaced by new wherever it stood
Patched(lst, old, new) ==
    [k \in DOMAIN lst |-> IF lst[k] = old THEN new ELSE lst[k]]

\* the spike trains of the call have been filtered and replaced as claimed
FilteredAsClaimed ==
    /\ \A p \in {1, 2} :
          /\ spiketrains[p] # p
          /\ objs[p].complexity # None
          /\ objs[spiketrains[p]].times = KeptTimes(p)
    /\ Len(objs[spiketrains[1]].times) + Len(objs[spiketrains[2]].times)
           = InputEvents - (Removed(1) + Removed(2))
    /\ unit_spiketrains =
           Patched(Patched(UnitListOf(objs[1].unit), 1, spiketrains[1]),
                   2, spiketrains[2])
    /\ segment_spiketrains =
           Patched(Patched(SegmentListOf(objs[1].segment), 1, spiketrains[1]),
                   2, spiketrains[2])
    /\ objs[1].unit =>
           /\ \A k \in DOMAIN unit_spiketrains : unit_spiketrains[k] \notin {1, 2}
           /\ \A k \in DOMAIN segment_spiketrains :
                  segment_spiketrains[k] \notin {1, 2}

\* C4: a call with deletion_threshold T >= 2 (on spike trains holding at
\* least one event) ends with every spike train replaced by the subsequence
\* of its events whose annotation is < T (>= T when inverted), the event count
\* reduced by the number of removed events, and the caller's list, the unit
\* and the segment holding the replacement where the original stood
C4_FilteredAndReplaced ==
    (/\ deletion_threshold # None
     /\ deletion_threshold[1] >= 2
     /\ InputEvents >= 1
     /\ pc \in {"done", "error"}) => FilteredAsClaimed

\* the same for the calls that return: the filtering itself is as claimed
FilteredOnReturn ==
    (/\ deletion_threshold # None
     /\ deletion_threshold[1] >= 2
     /\ pc = "done") => FilteredAsClaimed

\* a call that returned after removing a synchronous pair from owned trains
FilteredOnReturn_Witness ==
    /\ pc = "done"
    /\ deletion_threshold = Some(2)
    /\ ~invert_delete
    /\ objs[1].unit
    /\ objs[1].times = <<0, BinW>>
    /\ objs[2].times = <<0>>
    /\ objs[spiketrains[1]].times = <<BinW>>
    /\ objs[spiketrains[2]].times = <<>>
    /\ unit_spiketrains = <<spiketrains[2], 3, spiketrains[1]>>

\* nothing of the caller's data has been touched
Untouched ==
    /\ spiketrains = <<1, 2>>
    /\ Len(objs) = 3
    /\ \A id \in 1..3 : objs[id].complexity = None
    /\ unit_spiketrains = UnitListOf(objs[1].unit)
    /\ segment_spiketrains = SegmentListOf(objs[1].segment)
    /\ bincount = <<>>

\* C5: a call with a deletion_threshold that is not None and <= 1 raises,
\* and does so before any mutation
C5_InvalidThresholdRaises ==
    (deletion_threshold # None /\ deletion_threshold[1] <= 1) =>
        (pc \in {"call", "raised"} /\ Untouched)

C5_Witness ==
    /\ pc = "raised"
    /\ deletion_threshold = Some(1)
    /\ Len(objs[1].times) = 2
    /\ Untouched

StrictlyIncreasing(s) ==
    \A k \in 1..(Len(s) - 1) : s[k] < s[k + 1]

\* C8: for an input with at least one event the returned intervals are in
\* strictly increasing order of start time, do not overlap, have a synchrony
\* count >= 1 each, and their counts sum to the number of input events
C8_IntervalsPartitionEvents ==
    (pc = "epoch" /\ InputEvents >= 1) =>
        /\ Len(epoch_times) >= 1
        /\ Len(epoch_complexity) = Len(epoch_times)
        /\ Len(right_edges) = Len(epoch_times)
        /\ StrictlyIncreasing(epoch_times)
        /\ \A k \in 1..(Len(epoch_times) - 1) :
              epoch_times[k] + epoch_durations[k] <= epoch_times[k + 1]
        /\ \A k \in 1..Len(epoch_complexity) : epoch_complexity[k] >= 1
        /\ Sum(epoch_complexity) = InputEvents

\* three adjacent bins merged into one interval holding three events
C8_Witness ==
    /\ pc = "epoch"
    /\ spread = 1
    /\ InputEvents = 3
    /\ bincount = <<1, 1, 1>>
    /\ epoch_complexity = <<3>>

-----------------------------------------------------------------------------
(* Online accumulators.  The floating point values mean and variance_sum    *)
(* are modelled by exact fractions <<numerator, denominator>> in lowest     *)
(* terms with a positive denominator.                                       *)

MaxVal == 3         \* largest value / event time fed
MaxFed == 4         \* most values an accumulator is fed before a reset
MaxBatch == 2       \* largest batch

Abs(x) == IF x < 0 THEN -x ELSE x

RECURSIVE GCD(_, _)
GCD(a, b) == IF b = 0 THEN a ELSE GCD(b, a % b)

Frac(n, d) ==
    LET g == GCD(Abs(n), Abs(d))
        sg == IF d < 0 THEN -1 ELSE 1
    IN  <<sg * (n \div g), sg * (d \div g)>>

FAdd(x, y) == Frac(x[1] * y[2] + y[1] * x[2], x[2] * y[2])
FSub(x, y) == Frac(x[1] * y[2] - y[1] * x[2], x[2] * y[2])
FMul(x, y) == Frac(x[1] * y[1], x[2] * y[2])
FInt(v) == <<v, 1>>
FZero == <<0, 1>>

RECURSIVE FSum(_)
FSum(s) == IF s = <<>> THEN FZero ELSE FAdd(Head(s), FSum(Tail(s)))

\* the call's argument: a batch (an array, first axis the batch) in batch
\* mode, a single value otherwise
BatchSize(new_val) == IF batch_mode THEN Len(new_val) ELSE 1
ValSum(new_val) == IF batch_mode THEN Sum(new_val) ELSE new_val
ValSeq(new_val) == IF batch_mode THEN new_val ELSE <<new_val>>

MeanStep_nobatch(m, new_val_sum, batch_size, cnt) ==
    FAdd(m, FMul(FSub(FInt(new_val_sum), m), Frac(1, cnt)))

\* mean + (new_val_sum - mean * batch_size) / count
MeanStep(m, new_val_sum, batch_size, cnt) ==
    FAdd(m, FMul(FSub(FInt(new_val_sum), FMul(m, FInt(batch_size))),
                 Frac(1, cnt)))

\* MeanOnline.update: count is increased before the units are compared
MeanUpdate(new_val, u) ==
    /\ pc = "idle"
    /\ kind = "mean"
    /\ count + BatchSize(new_val) <= MaxFed
    /\ count' = count + BatchSize(new_val)
    /\ IF mean = None
       THEN /\ mean' = Frac(ValSum(new_val), BatchSize(new_val))
            /\ units' = u
            /\ result' = "ok"
       ELSE IF u # units
            THEN /\ result' = "raised"
                 /\ UNCHANGED <<mean, units>>
            ELSE /\ mean' = MeanStep(mean, ValSum(new_val),
                                     BatchSize(new_val), count')
                 /\ result' = "ok"
                 /\ UNCHANGED units
    /\ fed' = IF result' = "ok" THEN fed \o ValSeq(new_val) ELSE fed
    /\ clean' = (clean /\ result' = "ok")
    /\ UNCHANGED <<pc, kind, batch_mode, variance_sum, last_spike_time,
                   current_isi_histogram, max_isi_value, num_bins,
                   procVars, scanVars>>

\* MeanOnline.get_mean: a copy of the mean (None before the first update)
get_mean == mean

\* MeanOnline.reset
MeanReset ==
    /\ pc = "idle"
    /\ kind = "mean"
    /\ mean' = None
    /\ count' = 0
    /\ units' = NoUnits
    /\ result' = "none"
    /\ fed' = <<>>
    /\ clean' = TRUE
    /\ UNCHANGED <<pc, kind, batch_mode, variance_sum, last_spike_time,
                   current_isi_histogram, max_isi_value, num_bins,
                   procVars, scanVars>>

\* VarianceOnline.update: the units are compared before anything changes
VarianceUpdate(new_val, u) ==
    /\ pc = "idle"
    /\ kind = "var"
    /\ count + BatchSize(new_val) <= MaxFed
    /\ IF mean # None /\ u # units
       THEN /\ result' = "raised"
            /\ UNCHANGED <<mean, count, units, variance_sum>>
       ELSE LET mean0 == IF mean = None THEN FZero ELSE mean
                var0 == IF mean = None THEN FZero ELSE variance_sum
                vals == ValSeq(new_val)
                delta_var == [k \in DOMAIN vals |-> FSub(FInt(vals[k]), mean0)]
                mean1 == MeanStep(mean0, ValSum(new_val), BatchSize(new_val),
                                  count + BatchSize(new_val))
                delta_var2 == [k \in DOMAIN vals |->
                                  FMul(delta_var[k], FSub(FInt(vals[k]), mean1))]
            IN  /\ units' = IF mean = None THEN u ELSE units
                /\ count' = count + BatchSize(new_val)
                /\ mean' = mean1
                /\ variance_sum' = FAdd(var0, FSum(delta_var2))
                /\ result' = "ok"
    /\ fed' = IF result' = "ok" THEN fed \o ValSeq(new_val) ELSE fed
    /\ clean' = (clean /\ result' = "ok")
    /\ UNCHANGED <<pc, kind, batch_mode, last_spike_time,
                   current_isi_histogram, max_isi_value, num_bins,
                   procVars, scanVars>>

\* VarianceOnline.reset
VarianceReset ==
    /\ pc = "idle"
    /\ kind = "var"
    /\ mean' = None
    /\ count' = 0
    /\ units' = NoUnits
    /\ variance_sum' = FZero
    /\ result' = "none"
    /\ fed' = <<>>
    /\ clean' = TRUE
    /\ UNCHANGED <<pc, kind, batch_mode, last_spike_time,
                   current_isi_histogram, max_isi_value, num_bins,
                   procVars, scanVars>>

\* elephant.statistics.isi: the differences of consecutive entries
isi(t) == [k \in 1..(Len(t) - 1) |-> t[k + 1] - t[k]]

\* the value v falls into bin b (1-based) of bin_edges =
\* np.linspace(0, max_isi_value, num_bins + 1); np.histogram's bins are
\* half-open, the last one is closed
InBin(v, b) ==
    /\ (b - 1) * max_isi_value <= v * num_bins
    /\ \/ v * num_bins < b * max_isi_value
       \/ (b = num_bins /\ v = max_isi_value)

\* np.histogram(values, bins=self.bin_edges)[0]
Histogram(values) ==
    [b \in 1..num_bins |-> Cardinality({k \in DOMAIN values : InBin(values[k], b)})]

LaterIntervals_noboundary(last, new_val) ==
    IF batch_mode THEN isi(new_val) ELSE <<new_val - last>>

\* the intervals of an update after the first one
LaterIntervals(last, new_val) ==
    IF batch_mode THEN isi(<<last>> \o new_val) ELSE <<new_val - last>>

\* InterSpikeIntervalOnline.update
IsiUpdate(new_val, u) ==
    /\ pc = "idle"
    /\ kind = "isi"
    /\ Len(fed) + BatchSize(new_val) <= MaxFed
    /\ IF last_spike_time # None /\ u # units
       THEN /\ result' = "raised"
            /\ UNCHANGED <<last_spike_time, units, current_isi_histogram>>
       ELSE LET new_isi ==
                    IF last_spike_time = None
                    THEN (IF batch_mode THEN isi(new_val) ELSE <<>>)
                    ELSE LaterIntervals(last_spike_time[1], new_val)
                isi_hist == Histogram(new_isi)
            IN  /\ last_spike_time' =
                       Some(IF batch_mode THEN new_val[Len(new_val)]
                            ELSE new_val)
                /\ units' = IF last_spike_time = None THEN u ELSE units
                /\ current_isi_histogram' =
                       [b \in 1..num_bins |->
                           current_isi_histogram[b] + isi_hist[b]]
                /\ result' = "ok"
    /\ fed' = IF result' = "ok" THEN fed \o ValSeq(new_val) ELSE fed
    /\ clean' = (clean /\ result' = "ok")
    /\ UNCHANGED <<pc, kind, batch_mode, mean, count, variance_sum,
                   max_isi_value, num_bins, procVars, scanVars>>

\* InterSpikeIntervalOnline.get_isi: a copy of the histogram
get_isi == current_isi_histogram

\* InterSpikeIntervalOnline.reset
IsiReset ==
    /\ pc = "idle"
    /\ kind = "isi"
    /\ last_spike_time' = None
    /\ units' = NoUnits
    /\ current_isi_histogram' = [b \in 1..num_bins |-> 0]
    /\ result' = "none"
    /\ fed' = <<>>
    /\ clean' = TRUE
    /\ UNCHANGED <<pc, kind, batch_mode, mean, count, variance_sum,
                   max_isi_value, num_bins, procVars, scanVars>>

Vals == 0..MaxVal

Batches == {b \in SeqsUpTo(Vals, MaxBatch) : Len(b) >= 1}

Units == {NoUnits, "ms", "s"}

\* what one update call may be given
Args == IF batch_mode THEN Batches ELSE Vals

NextOnline ==
    \/ \E new_val \in Args, u \in Units : MeanUpdate(new_val, u)
    \/ MeanReset
    \/ \E new_val \in Args, u \in Units : VarianceUpdate(new_val, u)
    \/ VarianceReset
    \/ \E new_val \in Args, u \in Units : IsiUpdate(new_val, u)
    \/ IsiReset

\* (bin_size, max_isi_value) of an InterSpikeIntervalOnline
IsiConfigs == {<<1, 2>>, <<2, 5>>}

\* the state after __init__
InitOnline ==
    /\ pc = "idle"
    /\ kind \in {"mean", "var", "isi"}
    /\ batch_mode \in BOOLEAN
    /\ mean = None
    /\ count = 0
    /\ units = NoUnits
    /\ variance_sum = FZero
    /\ last_spike_time = None
    /\ \E c \in IsiConfigs :
          IF kind = "isi"
          THEN /\ max_isi_value = c[2]
               /\ num_bins = c[2] \div c[1]
          ELSE /\ max_isi_value = 0
               /\ num_bins = 0
    /\ current_isi_histogram = [b \in 1..num_bins |-> 0]
    /\ result = "none"
    /\ fed = <<>>
    /\ clean = TRUE
    /\ spiketrains = <<>>
    /\ objs = <<>>
    /\ unit_spiketrains = <<>>
    /\ segment_spiketrains = <<>>
    /\ t_start = 0
    /\ spread = 0
    /\ deletion_threshold = None
    /\ invert_delete = FALSE
    /\ idx = 0
    /\ bincount = <<>>
    /\ ScanIdle

SpecOnline == InitOnline /\ [][NextOnline]_vars

-----------------------------------------------------------------------------
(* Properties of the online accumulators *)

\* the state of an accumulator
AccState == <<mean, count, units, variance_sum, current_isi_histogram,
              last_spike_time>>

\* C6: an update rejected with a unit-mismatch error leaves the state of the
\* accumulator (mean, count, units, sum of squared deviations, histogram,
\* last event time) unchanged, in each of the three accumulators
C6_RejectedUpdateKeepsState ==
    [][result' = "raised" => AccState' = AccState]_vars

\* the same for the variance accumulator and the histogrammer alone
RejectedUpdateKeepsState_VarIsi ==
    [][(result' = "raised" /\ kind \in {"var", "isi"}) =>
           AccState' = AccState]_vars

RejectedUpdate_Witness ==
    /\ kind = "var"
    /\ result = "raised"
    /\ count = 2
    /\ fed = <<1, 3>>
    /\ mean = <<2, 1>>
    /\ variance_sum = <<2, 1>>

\* C7: while every update since creation or the last reset was accepted,
\* count is the number of values fed and get_mean() is their arithmetic mean
\* (count * mean = sum of the values), None before the first update; the
\* same state is reached for the values fed one at a time or in batches
C7_MeanIsArithmeticMean ==
    (kind = "mean" /\ clean) =>
        /\ count = Len(fed)
        /\ (fed = <<>>) <=> (get_mean = None)
        /\ fed # <<>> =>
              /\ get_mean[2] > 0
              /\ count * get_mean[1] = Sum(fed) * get_mean[2]

\* three values fed in two batches: the mean 5/3 of 1, 1, 3
C7_Witness ==
    /\ kind = "mean"
    /\ batch_mode
    /\ clean
    /\ fed = <<1, 1, 3>>
    /\ count = 3
    /\ get_mean = <<5, 3>>

\* C9: the accumulated histogram is the histogram of the N - 1 gaps between
\* consecutive events of the whole sequence fed so far, whatever the split
\* into updates; gaps outside [0, max_isi_value] are in no bin, so the total
\* is at most N - 1
C9_BoundaryGapsCaptured ==
    kind = "isi" =>
        /\ get_isi = Histogram(isi(fed))
        /\ \A b \in 1..num_bins :
              get_isi[b] = Cardinality({k \in 1..(Len(fed) - 1) :
                                           InBin(fed[k + 1] - fed[k], b)})
        /\ fed # <<>> =>
              /\ Sum(get_isi) <= Len(fed) - 1
              /\ last_spike_time = Some(fed[Len(fed)])
        /\ \A k \in 1..(Len(fed) - 1) :
              (fed[k + 1] - fed[k] < 0 \/ fed[k + 1] - fed[k] > max_isi_value)
                  => \A b \in 1..num_bins : ~InBin(fed[k + 1] - fed[k], b)

\* two batches <<0, 1>> and <<3>>: the gap 2 across the boundary is counted
C9_Witness ==
    /\ kind = "isi"
    /\ batch_mode
    /\ max_isi_value = 2
    /\ fed = <<0, 1, 3>>
    /\ result = "ok"
    /\ get_isi = <<0, 2>>

-----------------------------------------------------------------------------
(* The three developments together *)

Init == InitCI \/ InitSync \/ InitOnline

Next == NextSync \/ NextOnline

Spec == Init /\ [][Next]_vars

=============================================================================
